---- MODULE Spec2Model ----
(***************************************************************************)
(* Model of bids_metadata_manager.py: the five descriptor rules of         *)
(* BidsMetadataModifier and the WorkflowManager script (classification,    *)
(* renaming + slice alignment, phase-encoding sweep, cohort enrichment).   *)
(* The children of a subject directory are modality folders, the children  *)
(* of a modality folder are regular files.                                 *)
(*                                                                         *)
(* Conventions.                                                            *)
(*  - A Python str is a sequence of one-character strings.                 *)
(*  - A descriptor (Python dict) is a function whose DOMAIN is the set of  *)
(*    keys present.  Key order is not modelled.                            *)
(*  - Floats are scaled integers: SliceTiming in 1e-4 s, TotalReadoutTime  *)
(*    in 1e-7 s, EchoTime1/2 in 1e-5 s.                                    *)
(***************************************************************************)
EXTENDS Integers, Sequences, FiniteSets, TLC

VARIABLES data, subj, hist, trace,
          fs, tool, pc, idx, sub_seq, anatfunc_seq, anatfuncfmap_seq, err, log

rvars == <<data, subj, hist, trace>>

wvars == <<fs, tool, pc, idx, sub_seq, anatfunc_seq, anatfuncfmap_seq, err, log>>

vars == <<rvars, wvars>>

----------------------------------------------------------------------------
(* Python str helpers *)

StartsWith(s, p) ==
    /\ Len(p) <= Len(s)
    /\ SubSeq(s, 1, Len(p)) = p

EndsWith(s, p) ==
    /\ Len(p) <= Len(s)
    /\ SubSeq(s, Len(s) - Len(p) + 1, Len(s)) = p

Contains(s, p) ==
    \E k \in 0..(Len(s) - Len(p)) : SubSeq(s, k + 1, k + Len(p)) = p

(* Python dict helpers *)

Has(d, k) == k \in DOMAIN d

Put(d, k, v) == [x \in (DOMAIN d) \cup {k} |-> IF x = k THEN v ELSE d[x]]

Del(d, k) == [x \in (DOMAIN d) \ {k} |-> d[x]]

----------------------------------------------------------------------------
(* Literals of BidsMetadataModifier *)

SliceTimingDefault ==
    <<0, 650, 1325, 1975, 2625, 3275, 3925, 4575, 5225, 5875,
      6525, 7200, 7850, 8500, 9150, 9800, 10450, 11100, 11750, 12400,
      13050, 13725, 14375, 15025, 15675, 16325, 16975, 17625, 18275, 18925,
      19575, 20250, 20900, 21550, 22200, 22850, 23500, 24150>>

TotalReadoutTimeDefault == 377995

EchoTime1Default == 492

EchoTime2Default == 738

FuncDir == <<"f", "u", "n", "c", "/">>

TaskRestBold == <<"_", "t", "a", "s", "k", "-", "r", "e", "s", "t", "_", "b", "o", "l", "d">>

ExtNii == <<".", "n", "i", "i", ".", "g", "z">>

ExtJson == <<".", "j", "s", "o", "n">>

IntendedForOf(sub) == FuncDir \o sub \o TaskRestBold \o ExtNii

----------------------------------------------------------------------------
(* The five rules of BidsMetadataModifier *)

modify_phase_keeps_axis(d) ==
    IF Has(d, "PhaseEncodingAxis")
    THEN Put(d, "PhaseEncodingDirection", d["PhaseEncodingAxis"])
    ELSE Put(d, "PhaseEncodingDirection", "j")

modify_phase(d) ==
    IF Has(d, "PhaseEncodingAxis")
    THEN Del(Put(d, "PhaseEncodingDirection", d["PhaseEncodingAxis"]),
             "PhaseEncodingAxis")
    ELSE Put(d, "PhaseEncodingDirection", "j")

modify_func_slice_timing(d, sub) ==
    IF Has(d, "SliceTiming")
    THEN d
    ELSE Put(d, "SliceTiming", SliceTimingDefault)

modify_func_total_readout_time_overwrites(d, sub) ==
    Put(d, "TotalReadoutTime", TotalReadoutTimeDefault)

modify_func_total_readout_time(d, sub) ==
    IF Has(d, "TotalReadoutTime") /\ d["TotalReadoutTime"] = TotalReadoutTimeDefault
    THEN d
    ELSE IF ~Has(d, "TotalReadoutTime")
         THEN Put(d, "TotalReadoutTime", TotalReadoutTimeDefault)
         ELSE d

modify_fmap_intendfor(d, sub) ==
    IF ~Has(d, "IntendedFor")
    THEN Put(d, "IntendedFor", IntendedForOf(sub))
    ELSE Put(d, "IntendedFor", IntendedForOf(sub))

modify_fmap_pd(d) ==
    LET d1 == IF ~Has(d, "EchoTime1")
              THEN Put(d, "EchoTime1", EchoTime1Default)
              ELSE Put(d, "EchoTime1", EchoTime1Default)
    IN  IF ~Has(d1, "EchoTime2")
        THEN Put(d1, "EchoTime2", EchoTime2Default)
        ELSE Put(d1, "EchoTime2", EchoTime2Default)

----------------------------------------------------------------------------
(* Bounded inputs of the rules *)

MaxApply == 2

SubHc001 == <<"s", "u", "b", "-", "h", "c", "0", "0", "1">>

SubHc002 == <<"s", "u", "b", "-", "h", "c", "0", "0", "2">>

Keys ==
    {"PhaseEncodingAxis", "PhaseEncodingDirection", "SliceTiming",
     "TotalReadoutTime", "IntendedFor", "EchoTime1", "EchoTime2",
     "Manufacturer"}

FullRecords ==
    [PhaseEncodingAxis : {"i", "j"},
     PhaseEncodingDirection : {"i", "j"},
     SliceTiming : {SliceTimingDefault, <<0, 10000>>},
     TotalReadoutTime : {TotalReadoutTimeDefault, 500000},
     IntendedFor : {<<"x">>},
     EchoTime1 : {460},
     EchoTime2 : {700},
     Manufacturer : {"Siemens"}]

Restrict(d, S) == [x \in S |-> d[x]]

InputRecords == {Restrict(t, S) : t \in FullRecords, S \in SUBSET Keys}

----------------------------------------------------------------------------
(* Rule applications: data is the dict passed to and returned by a rule,  *)
(* hist the successive values of data, trace the rules applied so far.    *)

InitRules ==
    /\ data \in InputRecords
    /\ subj \in {SubHc001, SubHc002}
    /\ hist = <<data>>
    /\ trace = <<>>
    /\ fs = <<>>
    /\ tool = TRUE
    /\ pc = "done"
    /\ idx = 1
    /\ sub_seq = <<>>
    /\ anatfunc_seq = <<>>
    /\ anatfuncfmap_seq = <<>>
    /\ err = "none"
    /\ log = <<>>

Applied(name, d) ==
    /\ Len(trace) < MaxApply
    /\ data' = d
    /\ hist' = Append(hist, d)
    /\ trace' = Append(trace, name)
    /\ UNCHANGED <<subj, wvars>>

ApplyPhase == Applied("modify_phase", modify_phase(data))

ApplySliceTiming ==
    Applied("modify_func_slice_timing", modify_func_slice_timing(data, subj))

ApplyTotalReadoutTime ==
    Applied("modify_func_total_readout_time",
            modify_func_total_readout_time(data, subj))

ApplyIntendFor ==
    Applied("modify_fmap_intendfor", modify_fmap_intendfor(data, subj))

ApplyPd == Applied("modify_fmap_pd", modify_fmap_pd(data))

NextRules ==
    \/ ApplyPhase
    \/ ApplySliceTiming
    \/ ApplyTotalReadoutTime
    \/ ApplyIntendFor
    \/ ApplyPd

SpecRules == InitRules /\ [][NextRules]_vars

----------------------------------------------------------------------------
(* The dataset tree under source_path.                                     *)
(* fs maps the name of each entry of the root to [isdir, sub]; sub maps    *)
(* the name of each modality folder of a subject directory to a folder, a  *)
(* function from file name to file content.                                *)

RegularFile == [isdir |-> FALSE, sub |-> <<>>]

Dir(folders) == [isdir |-> TRUE, sub |-> folders]

Json(d) == [kind |-> "json", data |-> d]

Text == [kind |-> "text"]

Nifti(n) == [kind |-> "nifti", nz |-> n]

Junk == [kind |-> "junk"]

(* os.listdir returns the names in arbitrary order *)
Orders(S) ==
    {o \in [1..Cardinality(S) -> S] : \A a, b \in DOMAIN o : o[a] = o[b] => a = b}

Range(s) == {s[k] : k \in DOMAIN s}

----------------------------------------------------------------------------
(* Parameters of the script *)

sub_prefix == <<"s", "u", "b", "-", "h", "c">>

sub_digit == 3

sub_suffix == <<>>

Digits == {"0", "1", "2", "3", "4", "5", "6", "7", "8", "9"}

(* the pattern prefix(\d{digit})suffix matches name at offset k *)
MatchAt(name, k) ==
    LET p == Len(sub_prefix)
        s == Len(sub_suffix)
    IN  /\ k + p + sub_digit + s <= Len(name)
        /\ SubSeq(name, k + 1, k + p) = sub_prefix
        /\ \A j \in 1..sub_digit : name[k + p + j] \in Digits
        /\ SubSeq(name, k + p + sub_digit + 1, k + p + sub_digit + s) = sub_suffix

(* re.search: the pattern may match anywhere in name *)
meet_the_pattern(name) == \E k \in 0..Len(name) : MatchAt(name, k)

Canonical(sub, name, ext) == sub \o name \o ext

None == -1

----------------------------------------------------------------------------
(* WorkflowManager.__init__ *)

get_sub_seq ==
    /\ pc = "get_sub_seq"
    /\ err = "none"
    /\ \E order \in Orders({d \in DOMAIN fs : meet_the_pattern(d)}) :
           sub_seq' = order
    /\ pc' = "get_anatfunc_seq"
    /\ UNCHANGED <<rvars, fs, tool, idx, anatfunc_seq, anatfuncfmap_seq, err, log>>

HasFmap(sub) == "fmap" \in DOMAIN fs[sub].sub

NoFmap(sub) == ~HasFmap(sub)

DirWithFmap(sub) == fs[sub].isdir /\ HasFmap(sub)

(* os.listdir of an entry that is not a directory raises NotADirectoryError *)
get_anatfunc_seq ==
    /\ pc = "get_anatfunc_seq"
    /\ err = "none"
    /\ IF \E k \in DOMAIN sub_seq : ~fs[sub_seq[k]].isdir
       THEN /\ err' = "NotADirectoryError"
            /\ UNCHANGED <<pc, anatfunc_seq>>
       ELSE /\ anatfunc_seq' = SelectSeq(sub_seq, NoFmap)
            /\ pc' = "get_anatfuncfmap_seq"
            /\ UNCHANGED err
    /\ UNCHANGED <<rvars, fs, tool, idx, sub_seq, anatfuncfmap_seq, log>>

get_anatfuncfmap_seq ==
    /\ pc = "get_anatfuncfmap_seq"
    /\ err = "none"
    /\ anatfuncfmap_seq' = SelectSeq(sub_seq, DirWithFmap)
    /\ pc' = "change_func_files_name"
    /\ idx' = 1
    /\ UNCHANGED <<rvars, fs, tool, sub_seq, anatfunc_seq, err, log>>

----------------------------------------------------------------------------
(* WorkflowManager.change_func_files_name, one iteration per subject *)

os_rename(folder, src, dst) ==
    IF src \notin DOMAIN folder \/ src = dst
    THEN folder
    ELSE [x \in ((DOMAIN folder) \ {src}) \cup {dst} |->
              IF x = dst THEN folder[src] ELSE folder[x]]

Target(file, sub, name) ==
    IF EndsWith(file, ExtNii) THEN Canonical(sub, name, ExtNii)
    ELSE IF EndsWith(file, ExtJson) THEN Canonical(sub, name, ExtJson)
    ELSE file

RECURSIVE RenameAll(_, _, _, _)
RenameAll(folder, order, sub, name) ==
    IF order = <<>>
    THEN folder
    ELSE RenameAll(os_rename(folder, Head(order), Target(Head(order), sub, name)),
                   Tail(order), sub, name)

RECURSIVE RenameLog(_, _)
RenameLog(order, sub) ==
    IF order = <<>>
    THEN <<>>
    ELSE (IF EndsWith(Head(order), ExtNii) \/ EndsWith(Head(order), ExtJson)
          THEN <<[op |-> "rename", sub |-> sub]>>
          ELSE <<>>) \o RenameLog(Tail(order), sub)

Visible(folder) == {file \in DOMAIN folder : ~StartsWith(file, <<".">>)}

change_func_files_name ==
    /\ pc = "change_func_files_name"
    /\ err = "none"
    /\ IF idx > Len(sub_seq)
       THEN /\ pc' = "execute_func_slicing"
            /\ idx' = 1
            /\ UNCHANGED <<fs, err, log>>
       ELSE LET sub == sub_seq[idx]
            IN  IF ~fs[sub].isdir
                THEN /\ idx' = idx + 1
                     /\ UNCHANGED <<fs, pc, err, log>>
                ELSE IF "func" \notin DOMAIN fs[sub].sub
                THEN /\ err' = "FileNotFoundError"
                     /\ UNCHANGED <<fs, pc, idx, log>>
                ELSE \E func_files_lst \in Orders(Visible(fs[sub].sub["func"])) :
                     /\ fs' = [fs EXCEPT ![sub].sub["func"] =
                                  RenameAll(@, func_files_lst, sub, TaskRestBold)]
                     /\ log' = log \o RenameLog(func_files_lst, sub)
                     /\ idx' = idx + 1
                     /\ UNCHANGED <<pc, err>>
    /\ UNCHANGED <<rvars, tool, sub_seq, anatfunc_seq, anatfuncfmap_seq>>

----------------------------------------------------------------------------
(* WorkflowManager.execute_func_slicing, one iteration per subject *)

(* nib.load(path).shape[2], None on any exception *)
count_func_slice(sub) ==
    LET file == Canonical(sub, TaskRestBold, ExtNii)
    IN  IF "func" \notin DOMAIN fs[sub].sub THEN None
        ELSE IF file \notin DOMAIN fs[sub].sub["func"] THEN None
        ELSE IF fs[sub].sub["func"][file].kind # "nifti" THEN None
        ELSE fs[sub].sub["func"][file].nz

(* what fslroi <path> <path> 0 -1 0 -1 0 38 0 -1 leaves at path on exit 0; *)
(* on a non-zero exit (CalledProcessError) the file is taken as untouched   *)
fslroi(img) == [img EXCEPT !.nz = 38]

Falsy(slice_count) == slice_count = None \/ slice_count = 0

execute_func_slicing ==
    /\ pc = "execute_func_slicing"
    /\ err = "none"
    /\ IF idx > Len(sub_seq)
       THEN /\ pc' = "manipulate_phase_encoding"
            /\ idx' = 1
            /\ UNCHANGED <<fs, err, log>>
       ELSE LET sub == sub_seq[idx]
                file == Canonical(sub, TaskRestBold, ExtNii)
                slice_count == count_func_slice(sub)
                seen == [op |-> "inspect", sub |-> sub, n |-> slice_count]
            IN  IF ~fs[sub].isdir
                THEN /\ idx' = idx + 1
                     /\ UNCHANGED <<fs, pc, err, log>>
                ELSE IF Falsy(slice_count)
                THEN /\ log' = log \o <<seen, [op |-> "report_read", sub |-> sub]>>
                     /\ idx' = idx + 1
                     /\ UNCHANGED <<fs, pc, err>>
                ELSE IF slice_count = 38
                THEN /\ log' = Append(log, seen)
                     /\ idx' = idx + 1
                     /\ UNCHANGED <<fs, pc, err>>
                ELSE IF slice_count = 49
                THEN IF ~tool
                     THEN /\ err' = "EnvironmentError"
                          /\ log' = Append(log, seen)
                          /\ UNCHANGED <<fs, pc, idx>>
                     ELSE \/ /\ fs' = [fs EXCEPT ![sub].sub["func"][file] = fslroi(@)]
                             /\ log' = log \o <<seen, [op |-> "trim", sub |-> sub, ok |-> TRUE]>>
                             /\ idx' = idx + 1
                             /\ UNCHANGED <<pc, err>>
                          \/ /\ log' = log \o <<seen, [op |-> "trim", sub |-> sub, ok |-> FALSE],
                                                [op |-> "report_trim", sub |-> sub]>>
                             /\ idx' = idx + 1
                             /\ UNCHANGED <<fs, pc, err>>
                ELSE /\ log' = Append(log, seen)
                     /\ idx' = idx + 1
                     /\ UNCHANGED <<fs, pc, err>>
    /\ UNCHANGED <<rvars, tool, sub_seq, anatfunc_seq, anatfuncfmap_seq>>

----------------------------------------------------------------------------
(* WorkflowManager.manipulate_phase_encoding, one iteration per subject *)

(* the descriptors the nested loops visit, as <<folder, file>> *)
PhaseWork(entry) ==
    {w \in UNION {{<<t, file>> : file \in Visible(entry.sub[t])} : t \in DOMAIN entry.sub} :
        EndsWith(w[2], ExtJson)}

(* the files of one folder are visited together *)
Grouped(o) ==
    \A a, b, c \in DOMAIN o : (a < b /\ b < c /\ o[a][1] = o[c][1]) => o[b][1] = o[a][1]

Worklists(entry) == {o \in Orders(PhaseWork(entry)) : Grouped(o)}

(* JsonManipulation.load_json: json.load raises unless the file holds JSON *)
Loadable(content) == content.kind = "json"

(* load_json, modify_phase, save_json on each descriptor of the worklist   *)
(* in turn; the first load that raises ends the sweep                      *)
RECURSIVE SweepPhase(_, _, _, _)
SweepPhase(folders, work, sub, lg) ==
    IF work = <<>>
    THEN [sub |-> folders, log |-> lg, raised |-> FALSE]
    ELSE LET t == Head(work)[1]
             file == Head(work)[2]
         IN  IF ~Loadable(folders[t][file])
             THEN [sub |-> folders, log |-> lg, raised |-> TRUE]
             ELSE SweepPhase(
                      [folders EXCEPT ![t][file] = Json(modify_phase(@.data))],
                      Tail(work), sub,
                      Append(lg, [op |-> "phase", sub |-> sub, t |-> t, file |-> file]))

manipulate_phase_encoding ==
    /\ pc = "manipulate_phase_encoding"
    /\ err = "none"
    /\ IF idx > Len(sub_seq)
       THEN /\ pc' = "manipulate_anatfuncfmap"
            /\ idx' = 1
            /\ UNCHANGED <<fs, err, log>>
       ELSE LET sub == sub_seq[idx]
            IN  IF ~fs[sub].isdir
                THEN /\ idx' = idx + 1
                     /\ UNCHANGED <<fs, pc, err, log>>
                ELSE \E work \in Worklists(fs[sub]) :
                     LET r == SweepPhase(fs[sub].sub, work, sub, log)
                     IN  /\ fs' = [fs EXCEPT ![sub].sub = r.sub]
                         /\ log' = r.log
                         /\ IF r.raised
                            THEN /\ err' = "JSONDecodeError"
                                 /\ UNCHANGED idx
                            ELSE /\ idx' = idx + 1
                                 /\ UNCHANGED err
                         /\ UNCHANGED pc
    /\ UNCHANGED <<rvars, tool, sub_seq, anatfunc_seq, anatfuncfmap_seq>>

----------------------------------------------------------------------------
(* WorkflowManager.manipulate_anatfuncfmap, one iteration per subject *)

Phasediff == <<"p", "h", "a", "s", "e", "d", "i", "f", "f">>

(* the descriptors of func and fmap the nested loops visit *)
EnrichWork(entry) ==
    {w \in PhaseWork(entry) : w[1] \in {"func", "fmap"}}

EnrichWorklists(entry) == {o \in Orders(EnrichWork(entry)) : Grouped(o)}

(* the rules applied between load_json and save_json *)
EnrichRule_pd_everywhere(t, file, d, sub) ==
    IF t = "func"
    THEN modify_func_total_readout_time(modify_func_slice_timing(d, sub), sub)
    ELSE modify_fmap_pd(modify_fmap_intendfor(d, sub))

EnrichRule(t, file, d, sub) ==
    IF t = "func"
    THEN modify_func_total_readout_time(modify_func_slice_timing(d, sub), sub)
    ELSE IF Contains(file, Phasediff)
         THEN modify_fmap_pd(modify_fmap_intendfor(d, sub))
         ELSE modify_fmap_intendfor(d, sub)

(* load_json, the rules, save_json on each descriptor of the worklist in   *)
(* turn; the first load that raises ends the enrichment                    *)
RECURSIVE SweepEnrich(_, _, _)
SweepEnrich(folders, work, sub) ==
    IF work = <<>>
    THEN [sub |-> folders, raised |-> FALSE]
    ELSE LET t == Head(work)[1]
             file == Head(work)[2]
         IN  IF ~Loadable(folders[t][file])
             THEN [sub |-> folders, raised |-> TRUE]
             ELSE SweepEnrich(
                      [folders EXCEPT ![t][file] = Json(EnrichRule(t, file, @.data, sub))],
                      Tail(work), sub)

manipulate_anatfuncfmap ==
    /\ pc = "manipulate_anatfuncfmap"
    /\ err = "none"
    /\ IF idx > Len(anatfuncfmap_seq)
       THEN /\ pc' = "done"
            /\ idx' = 1
            /\ UNCHANGED <<fs, err, log>>
       ELSE LET sub == anatfuncfmap_seq[idx]
            IN  IF ~fs[sub].isdir
                THEN /\ idx' = idx + 1
                     /\ UNCHANGED <<fs, pc, err, log>>
                ELSE \E work \in EnrichWorklists(fs[sub]) :
                     LET r == SweepEnrich(fs[sub].sub, work, sub)
                     IN  /\ fs' = [fs EXCEPT ![sub].sub = r.sub]
                         /\ log' = Append(log, [op |-> "enrich", sub |-> sub])
                         /\ IF r.raised
                            THEN /\ err' = "JSONDecodeError"
                                 /\ UNCHANGED idx
                            ELSE /\ idx' = idx + 1
                                 /\ UNCHANGED err
                         /\ UNCHANGED pc
    /\ UNCHANGED <<rvars, tool, sub_seq, anatfunc_seq, anatfuncfmap_seq>>

----------------------------------------------------------------------------
(* Bounded datasets *)

MaxEntries == 2

SubHc003 == <<"s", "u", "b", "-", "h", "c", "0", "0", "3">>

SubHc0012 == <<"s", "u", "b", "-", "h", "c", "0", "0", "1", "2">>

XSubHc001 == <<"x", "s", "u", "b", "-", "h", "c", "0", "0", "1">>

SubHc001Bak == <<"s", "u", "b", "-", "h", "c", "0", "0", "1", ".", "b", "a", "k">>

SubHc01 == <<"s", "u", "b", "-", "h", "c", "0", "1">>

SubHc0a1 == <<"s", "u", "b", "-", "h", "c", "0", "a", "1">>

SubjectNames == {SubHc001, SubHc002, SubHc003}

EntryNames == SubjectNames \cup {SubHc0012, XSubHc001, SubHc001Bak, SubHc01, SubHc0a1}

T1wJson == <<"T", "1", "w">> \o ExtJson

RestNii == <<"r", "e", "s", "t">> \o ExtNii

Rest2Nii == <<"r", "e", "s", "t", "2">> \o ExtNii

RestJson == <<"r", "e", "s", "t">> \o ExtJson

HiddenJson == <<".", "_", "r", "e", "s", "t">> \o ExtJson

PhasediffJson == <<"p", "h", "a", "s", "e", "d", "i", "f", "f">> \o ExtJson

AxisI == [PhaseEncodingAxis |-> "i", Manufacturer |-> "Siemens"]

DirectionI == [PhaseEncodingDirection |-> "i"]

Anat == T1wJson :> Json(AxisI)

Func(img, desc) == (RestNii :> img) @@ (RestJson :> desc)

Fmap == PhasediffJson :> Json(DirectionI)

(* entries that differ in kind and in the presence of fmap *)
CohortEntries ==
    {RegularFile,
     Dir(("anat" :> Anat) @@ ("func" :> Func(Nifti(38), Json(AxisI)))),
     Dir(("anat" :> Anat) @@ ("func" :> Func(Nifti(38), Json(AxisI))) @@ ("fmap" :> Fmap))}

(* subject directories that differ in the functional image *)
ImageEntries ==
    {Dir(("anat" :> Anat) @@ ("func" :> Func(img, Json(AxisI)))) :
         img \in {Nifti(38), Nifti(49), Nifti(50), Junk}}
    \cup {Dir("anat" :> Anat),
          Dir("func" :> (RestJson :> Json(AxisI))),
          Dir("func" :> (Func(Nifti(49), Json(AxisI)) @@ (Rest2Nii :> Nifti(38))))}

(* subject directories that differ in the descriptors *)
DescriptorEntries ==
    {Dir(("anat" :> (T1wJson :> a)) @@ ("func" :> (Func(Nifti(38), f) @@ (HiddenJson :> Text)))) :
         a \in {Json(AxisI), Text}, f \in {Json(AxisI), Json(DirectionI), Json(<<>>), Text}}

MagnitudeJson == <<"m", "a", "g", "n", "i", "t", "u", "d", "e", "1">> \o ExtJson

HiddenPhasediffJson == <<".", "_">> \o PhasediffJson

Stale == [IntendedFor |-> <<"x">>, EchoTime1 |-> 460, EchoTime2 |-> 700]

Timed == [SliceTiming |-> <<0, 10000>>, TotalReadoutTime |-> 500000]

(* subject directories that differ in the func and fmap descriptors *)
EnrichEntries ==
    {Dir(("anat" :> (T1wJson :> Json(Stale)))
         @@ ("func" :> Func(Nifti(38), Json(AxisI)))
         @@ ("fmap" :> ((PhasediffJson :> Json(Stale)) @@ (HiddenPhasediffJson :> Text)))),
     Dir(("func" :> Func(Nifti(38), Json(Timed)))
         @@ ("fmap" :> (MagnitudeJson :> Json(Stale)))),
     Dir(("func" :> Func(Nifti(38), Json(AxisI)))
         @@ ("fmap" :> ((PhasediffJson :> Json(DirectionI))
                        @@ (MagnitudeJson :> Json(DirectionI))))),
     Dir(("anat" :> (T1wJson :> Json(Stale)))
         @@ ("func" :> Func(Nifti(38), Json(Stale))))}

Roots(names, entries) ==
    UNION {[S -> entries] : S \in {T \in SUBSET names : Cardinality(T) <= MaxEntries}}

Init ==
    /\ \/ fs \in Roots(EntryNames, CohortEntries) /\ tool = TRUE
       \/ fs \in Roots(SubjectNames, ImageEntries) /\ tool \in BOOLEAN
       \/ fs \in Roots(SubjectNames, DescriptorEntries) /\ tool = TRUE
       \/ fs \in Roots(SubjectNames, EnrichEntries) /\ tool = TRUE
    /\ pc = "get_sub_seq"
    /\ idx = 1
    /\ sub_seq = <<>>
    /\ anatfunc_seq = <<>>
    /\ anatfuncfmap_seq = <<>>
    /\ err = "none"
    /\ log = <<>>
    /\ data = <<>>
    /\ subj = <<>>
    /\ hist = <<>>
    /\ trace = <<>>

Next ==
    \/ get_sub_seq
    \/ get_anatfunc_seq
    \/ get_anatfuncfmap_seq
    \/ change_func_files_name
    \/ execute_func_slicing
    \/ manipulate_phase_encoding
    \/ manipulate_anatfuncfmap

Spec == Init /\ [][Next]_vars

----------------------------------------------------------------------------
(* Applications of one rule: step k took hist[k] to hist[k + 1] *)

Steps(name) == {k \in 1..Len(trace) : trace[k] = name}

SameExcept(d, e, ks) ==
    /\ (DOMAIN d) \ ks = (DOMAIN e) \ ks
    /\ \A x \in (DOMAIN d) \ ks : d[x] = e[x]

PhaseKeys == {"PhaseEncodingAxis", "PhaseEncodingDirection"}

\* C1: modify_phase returns its input unchanged whenever
\* PhaseEncodingDirection is present and PhaseEncodingAxis is absent.
C1_DirectionKept ==
    \A k \in Steps("modify_phase") :
        (Has(hist[k], "PhaseEncodingDirection") /\ ~Has(hist[k], "PhaseEncodingAxis"))
            => hist[k + 1] = hist[k]

\* C2: applying any one of the five rules twice in a row gives the same
\* record as applying it once.
C2_Idempotent ==
    \A k \in 1..(Len(trace) - 1) :
        trace[k] = trace[k + 1] => hist[k + 2] = hist[k + 1]

\* C3: modify_phase on a record with PhaseEncodingAxis = v yields
\* PhaseEncodingDirection = v, on a record with neither key yields
\* PhaseEncodingDirection = "j"; the result never has PhaseEncodingAxis and
\* every other field is unchanged.
C3_RenameAndDefault ==
    \A k \in Steps("modify_phase") :
        LET d == hist[k]
            e == hist[k + 1]
        IN  /\ Has(d, "PhaseEncodingAxis") =>
                /\ Has(e, "PhaseEncodingDirection")
                /\ e["PhaseEncodingDirection"] = d["PhaseEncodingAxis"]
                /\ ~Has(e, "PhaseEncodingAxis")
                /\ SameExcept(d, e, PhaseKeys)
            /\ (~Has(d, "PhaseEncodingAxis") /\ ~Has(d, "PhaseEncodingDirection")) =>
                /\ Has(e, "PhaseEncodingDirection")
                /\ e["PhaseEncodingDirection"] = "j"
                /\ ~Has(e, "PhaseEncodingAxis")
                /\ SameExcept(d, e, PhaseKeys)

C3_Witness ==
    \E k \in Steps("modify_phase") :
        /\ Has(hist[k], "PhaseEncodingAxis")
        /\ hist[k]["PhaseEncodingAxis"] = "i"
        /\ Has(hist[k], "Manufacturer")
        /\ hist[k + 1]["PhaseEncodingDirection"] = "i"

StrictlyAscending(s) == \A a \in 1..(Len(s) - 1) : s[a] < s[a + 1]

\* C4: modify_func_slice_timing sets SliceTiming to the 38-element strictly
\* ascending literal (first 0, last 2.415 s) when the key is absent and
\* returns the record unchanged when it is present;
\* modify_func_total_readout_time sets TotalReadoutTime to 0.0377995 s when
\* the key is absent and returns the record unchanged when it is present,
\* whatever its value.
C4_InjectOnlyWhenAbsent ==
    /\ \A k \in Steps("modify_func_slice_timing") :
        LET d == hist[k]
            e == hist[k + 1]
        IN  IF Has(d, "SliceTiming")
            THEN e = d
            ELSE /\ Has(e, "SliceTiming")
                 /\ Len(e["SliceTiming"]) = 38
                 /\ e["SliceTiming"][1] = 0
                 /\ e["SliceTiming"][38] = 24150
                 /\ StrictlyAscending(e["SliceTiming"])
                 /\ SameExcept(d, e, {"SliceTiming"})
    /\ \A k \in Steps("modify_func_total_readout_time") :
        LET d == hist[k]
            e == hist[k + 1]
        IN  IF Has(d, "TotalReadoutTime")
            THEN e = d
            ELSE /\ Has(e, "TotalReadoutTime")
                 /\ e["TotalReadoutTime"] = 377995
                 /\ SameExcept(d, e, {"TotalReadoutTime"})

C4_Witness ==
    /\ Len(trace) = 2
    /\ trace[1] = "modify_func_slice_timing"
    /\ trace[2] = "modify_func_total_readout_time"
    /\ ~Has(hist[1], "SliceTiming")
    /\ Has(hist[2], "TotalReadoutTime")
    /\ hist[2]["TotalReadoutTime"] = 500000
    /\ hist[3] = hist[2]

----------------------------------------------------------------------------
(* What the run has done so far, read from log *)

Count(op, sub) ==
    Cardinality({k \in DOMAIN log : log[k].op = op /\ log[k].sub = sub})

Reported(sub) == Count("report_read", sub) + Count("report_trim", sub) > 0

TrimFailed(sub) == \E k \in DOMAIN log :
    log[k].op = "trim" /\ log[k].sub = sub /\ ~log[k].ok

SubjectDirs == {d \in Range(sub_seq) : fs[d].isdir}

\* C5: for a subject whose canonical image was inspected with slice count n
\* (tool installed): n = 49 means the trimmer ran exactly once and, unless
\* it exited non-zero, the image now has 38 slices; n = 38 means the trimmer
\* never ran; any other n means the subject was reported as skipped, the
\* trimmer never ran and the image still has n slices.
C5_CaseAnalysis ==
    \A k \in DOMAIN log : log[k].op = "inspect" =>
        LET sub == log[k].sub
            n == log[k].n
        IN  /\ (n = 49 /\ tool) =>
                /\ Count("trim", sub) = 1
                /\ TrimFailed(sub) \/ count_func_slice(sub) = 38
            /\ n = 38 => Count("trim", sub) = 0
            /\ (n \notin {38, 49} /\ ~Falsy(n)) =>
                /\ Reported(sub)
                /\ Count("trim", sub) = 0
                /\ count_func_slice(sub) = n

\* C6: once execute_func_slicing has returned, every subject directory has
\* a 38-slice functional image or a report was emitted for it.
C6_PostAlignment ==
    pc \in {"manipulate_phase_encoding", "manipulate_anatfuncfmap", "done"} =>
        \A sub \in SubjectDirs : count_func_slice(sub) = 38 \/ Reported(sub)

\* C7: a descriptor that fails to load never aborts the sweep, and when the
\* sweep is over every loadable descriptor of every subject directory has
\* been processed.
C7_FailureIsolation ==
    /\ err # "JSONDecodeError"
    /\ pc \in {"manipulate_anatfuncfmap", "done"} =>
        \A sub \in SubjectDirs : \A w \in PhaseWork(fs[sub]) :
            Loadable(fs[sub].sub[w[1]][w[2]]) =>
                \E k \in DOMAIN log :
                    log[k] = [op |-> "phase", sub |-> sub, t |-> w[1], file |-> w[2]]

\* C8: without the trimming tool, execute_func_slicing renames, inspects
\* and trims nothing and does not return normally.
C8_ToolCheckedUpFront ==
    ~tool =>
        /\ \A k \in DOMAIN log : log[k].op \notin {"rename", "inspect", "trim"}
        /\ pc \notin {"manipulate_phase_encoding", "manipulate_anatfuncfmap", "done"}

ExactName(name) ==
    /\ Len(name) = Len(sub_prefix) + sub_digit + Len(sub_suffix)
    /\ MatchAt(name, 0)

\* C9: sub_seq holds exactly the root entries named prefix, N digits,
\* suffix and nothing else.
C9_FullMatch ==
    pc # "get_sub_seq" => Range(sub_seq) = {d \in DOMAIN fs : ExactName(d)}

\* C10: classification never fails on a matched entry that is not a
\* directory, and afterwards anatfuncfmap_seq holds exactly the matched
\* directories with fmap, anatfunc_seq exactly those without; the two are
\* disjoint and cover the matched directories.
C10_CohortPartition ==
    /\ err # "NotADirectoryError"
    /\ pc \notin {"get_sub_seq", "get_anatfunc_seq", "get_anatfuncfmap_seq"} =>
        /\ Range(anatfuncfmap_seq) = {d \in SubjectDirs : HasFmap(d)}
        /\ Range(anatfunc_seq) = {d \in SubjectDirs : ~HasFmap(d)}
        /\ Range(anatfuncfmap_seq) \cap Range(anatfunc_seq) = {}
        /\ Range(anatfuncfmap_seq) \cup Range(anatfunc_seq) = SubjectDirs

----------------------------------------------------------------------------
(* The descriptors of a modality folder: its visible .json files *)

Descriptors(entry, t) ==
    IF t \in DOMAIN entry.sub
    THEN {file \in Visible(entry.sub[t]) : EndsWith(file, ExtJson)}
    ELSE {}

FullSubjects == {d \in SubjectDirs : HasFmap(d)}

EchoFields(d) == Restrict(d, (DOMAIN d) \cap {"EchoTime1", "EchoTime2"})

(* the state manipulate_anatfuncfmap leaves when it returns *)
C11_Enriched ==
    pc = "done" =>
        \A sub \in FullSubjects :
            /\ \A file \in Descriptors(fs[sub], "fmap") :
                LET c == fs[sub].sub["fmap"][file]
                IN  /\ Loadable(c)
                    /\ Has(c.data, "IntendedFor")
                    /\ c.data["IntendedFor"] = FuncDir \o sub \o TaskRestBold \o ExtNii
                    /\ Contains(file, Phasediff) =>
                        /\ Has(c.data, "EchoTime1") /\ c.data["EchoTime1"] = 492
                        /\ Has(c.data, "EchoTime2") /\ c.data["EchoTime2"] = 738
            /\ \A file \in Descriptors(fs[sub], "func") :
                LET c == fs[sub].sub["func"][file]
                IN  /\ Loadable(c)
                    /\ Has(c.data, "SliceTiming")
                    /\ Has(c.data, "TotalReadoutTime")

(* what a step of manipulate_anatfuncfmap leaves alone *)
C11_Untouched ==
    pc = "manipulate_anatfuncfmap" =>
        \A d \in DOMAIN fs :
            /\ ~HasFmap(d) => fs'[d] = fs[d]
            /\ "anat" \in DOMAIN fs[d].sub => fs'[d].sub["anat"] = fs[d].sub["anat"]
            /\ \A file \in Descriptors(fs[d], "fmap") :
                (~Contains(file, Phasediff) /\ Loadable(fs[d].sub["fmap"][file])) =>
                    /\ Loadable(fs'[d].sub["fmap"][file])
                    /\ EchoFields(fs'[d].sub["fmap"][file].data)
                         = EchoFields(fs[d].sub["fmap"][file].data)

\* C11: when manipulate_anatfuncfmap has run, every fmap descriptor of every
\* subject with an fmap folder has IntendedFor = func/<sub>_task-rest_bold.nii.gz,
\* those whose name contains phasediff have EchoTime1 = 0.00492 and
\* EchoTime2 = 0.00738, and every func descriptor of such a subject has
\* SliceTiming and TotalReadoutTime; no step of it changes EchoTime1/EchoTime2
\* of an fmap descriptor without phasediff, an anat descriptor, or anything
\* of a subject without an fmap folder.
C11_CohortEnrichment == []C11_Enriched /\ [][C11_Untouched]_vars

C11_Witness ==
    /\ pc = "done"
    /\ \E sub \in FullSubjects :
        /\ MagnitudeJson \in DOMAIN fs[sub].sub["fmap"]
        /\ fs[sub].sub["fmap"][MagnitudeJson].data
             = [IntendedFor |-> IntendedForOf(sub), EchoTime1 |-> 460, EchoTime2 |-> 700,
                PhaseEncodingDirection |-> "j"]
    /\ \E sub \in SubjectDirs : ~HasFmap(sub) /\ Count("enrich", sub) = 0

----------------------------------------------------------------------------
(* One iteration of change_func_files_name on the func folder of sub *)

Images(folder) == {file \in DOMAIN folder : EndsWith(file, ExtNii)}

Sidecars(folder) == {file \in DOMAIN folder : EndsWith(file, ExtJson)}

OnePair(folder) ==
    /\ Cardinality(Images(folder)) = 1
    /\ Cardinality(Sidecars(folder)) = 1
    /\ DOMAIN folder = Images(folder) \cup Sidecars(folder)

RenamedPair(before, after, sub) ==
    LET img == CHOOSE file \in Images(before) : TRUE
        desc == CHOOSE file \in Sidecars(before) : TRUE
        nii == sub \o TaskRestBold \o ExtNii
        json == sub \o TaskRestBold \o ExtJson
    IN  /\ DOMAIN after = {nii, json}
        /\ after[nii] = before[img]
        /\ after[json] = before[desc]
        /\ \A order \in Orders(Visible(after)) :
               RenameAll(after, order, sub, TaskRestBold) = after

RenameStep(sub) ==
    LET before == fs[sub].sub["func"]
        after == fs'[sub].sub["func"]
    IN  /\ OnePair(before) => RenamedPair(before, after, sub)
        /\ Cardinality(DOMAIN after) < Cardinality(DOMAIN before) =>
              \/ err' # "none"
              \/ \E k \in DOMAIN log' : log'[k] = [op |-> "report_rename", sub |-> sub]

\* C12: an iteration of change_func_files_name on a func folder holding one
\* image and one descriptor leaves exactly <sub>_task-rest_bold.nii.gz and
\* <sub>_task-rest_bold.json with the contents of the two original files, and
\* renaming again changes nothing; an iteration that leaves fewer files in
\* the folder than it found fails or reports.
C12_RenameLosesNothing ==
    [][(pc = "change_func_files_name" /\ idx <= Len(sub_seq)
            /\ "func" \in DOMAIN fs[sub_seq[idx]].sub)
        => RenameStep(sub_seq[idx])]_vars

====
